---------------------------- MODULE Spec2Model ----------------------------
(***************************************************************************)
(* Model of simulator.py (class Simulator): the adaptive-integration path  *)
(* run -> get_trajectory_ODE -> solve_ivp(satellite_dynamics).             *)
(*                                                                         *)
(* Numbers.  Floating point is modelled in fixed point with three decimal  *)
(* digits (FP = 1000) in the units (Mm, ks, kg): a position component is   *)
(* an integer number of km, a velocity component an integer number of m/s. *)
(* Normalized ("designer unit") quantities are integers in thousandths.    *)
(* Normalized time is counted in ticks of max_step = 0.001 (TICKS per      *)
(* unit), and the orbit count tf in hundredths of an orbit (tf = 1.5 is    *)
(* 150), so that integer and fractional orbit counts are both inputs.      *)
(*                                                                         *)
(* Library behaviour that the source does not pin down (numpy.linspace     *)
(* given a float sample count, solve_ivp given a non-finite y0 or an empty *)
(* span) is a nondeterministic choice over the outcomes the releases of    *)
(* the library produce.                                                    *)
(***************************************************************************)
EXTENDS Integers, Sequences, FiniteSets, TLC

VARIABLES
    \* ---- Simulator object (run level) ----
    sats,        \* self.sats: sequence of Satellite records
    controller,  \* self.controller: the kind of u its get_u_func() yields
    sim_data,    \* self.sim_data: function id -> trajectory
    pos_dict,    \* run's local pos_dict
    pc,          \* position of run: "idle" | "loop" | "returned" | "raised" | "hung"
    idx,         \* run's loop position in self.sats (1-based, next to process)
    tf,          \* run's argument tf, in hundredths of an orbit
    runs,        \* number of calls of run made so far
    sats0,       \* history: self.sats as it was when the current run was called
    failed,      \* history: index of the satellite whose propagation failed, or 0
    completed,   \* history: the latest run that returned: [n, sats, tf]
    \* ---- one call of get_trajectory_ODE (integration level) ----
    o_pc,        \* "off" | "normalize" | "linspace" | "solve_ivp" | "integrating"
                 \*   | "solved" | "returned" | "raised" | "hung"
    o_sat,       \* argument sat
    o_tf,        \* argument tf (hundredths)
    o_u,         \* argument u (kind of control function)
    o_nrm,       \* the locals r0, s0, v0, a0, m0, mu0, y0, const
    o_res,       \* local resolution (number of points of times), or -1
    o_st,        \* state of the solver inside solve_ivp
    o_tau,       \* history: last tau at which fun (and u) was evaluated, or -1
    o_pos        \* the returned array pos

vars == << sats, controller, sim_data, pos_dict, pc, idx, tf, runs, sats0, failed, completed,
           o_pc, o_sat, o_tf, o_u, o_nrm, o_res, o_st, o_tau, o_pos >>

run_vars == << sats, controller, sim_data, pos_dict, pc, idx, tf, runs, sats0, failed,
               completed >>
ode_vars == << o_pc, o_sat, o_tf, o_u, o_nrm, o_res, o_st, o_tau, o_pos >>

---------------------------------------------------------------------------
(* Bounds of the model *)

\* largest orbit count tf, in whole orbits, passed to get_trajectory_ODE
MaxTf == 2
\* largest orbit count tf, in whole orbits, passed to run
MaxRunTf == 1
\* longest list self.sats
MaxSats == 2
\* most calls of run on one Simulator
MaxRuns == 2

---------------------------------------------------------------------------
(* Fixed point *)

FP == 10 * 10 * 10

\* the orbit count tf is carried in hundredths of an orbit
TF_UNIT == 10 * 10

Min(a, b) == IF a <= b THEN a ELSE b

RECURSIVE NewtonSqrt(_, _)
NewtonSqrt(n, x) ==
    LET x1 == (x + n \div x) \div 2
    IN  IF x1 >= x THEN x ELSE NewtonSqrt(n, x1)

\* floor of the square root (np.sqrt, np.linalg.norm)
ISqrt(n) ==
    IF n = 0 THEN 0
    ELSE NewtonSqrt(n, IF n <= FP * FP THEN FP ELSE n \div FP)

RECURSIVE SumSq(_)
SumSq(v) == IF v = << >> THEN 0 ELSE Head(v) * Head(v) + SumSq(Tail(v))

\* np.linalg.norm of a vector (of any length; the empty vector has norm 0)
Norm(v) == ISqrt(SumSq(v))

\* Python's y[a:b] on a 0-based array: indices past the end are dropped
PySlice(y, a, b) == SubSeq(y, a + 1, Min(b, Len(y)))

---------------------------------------------------------------------------
(* constants.py (imported at simulator.py:4), in (Mm, ks, kg) fixed point.  *)
(* The file itself is not among the sources; the values are the usual      *)
(* ones for the Earth and a small satellite.                               *)

MU_EARTH == 398600      \* 3.986e14 m^3/s^2 = 398.600 Mm^3/ks^2
R_EARTH == 6378         \* 6.378 Mm
J2 == 1                 \* 1.08e-3
C_D == 2200             \* 2.2
SA == 0                 \* 1 m^2 = 1e-12 Mm^2, below the resolution
G0 == 9810              \* 9.81 m/s^2 = 9.810 Mm/ks^2
ISP == 300              \* 0.300 ks
TWO_PI == 6283          \* 2*np.pi
RHO_500KM == 998300     \* 9.983e-13 kg/m^3 = 998300 kg/Mm^3 (not scaled by FP)

\* ticks of normalized time per unit: max_step = 0.001 is one tick
TICKS == 1000
MAX_STEP == 1
\* resolution = (100*tf) + 1
SAMPLES_PER_ORBIT == 100

---------------------------------------------------------------------------
(* Inputs: the satellites, control functions and orbit counts of the model *)

Vec3(a, b, c) == << a, b, c >>

Sat(i, p, v, m, t) == [id |-> i, position |-> p, velocity |-> v, mass |-> m, thrust |-> t]

\* near-circular low orbit in the equatorial plane
SatA == Sat(1, Vec3(7000, 0, 0), Vec3(0, 7546, 0), 500, Vec3(0, 0, 0))
\* inclined orbit, other radius and mass
SatB == Sat(2, Vec3(0, 4800, 6400), Vec3(7058, 0, 0), 300, Vec3(1, 0, 0))
\* degenerate: initial position norm 0
SatZ == Sat(3, Vec3(0, 0, 0), Vec3(0, 7546, 0), 500, Vec3(0, 0, 0))
\* a second satellite carrying the id of SatA
SatA2 == Sat(1, Vec3(0, 10000, 0), Vec3(0, 0, 6313), 400, Vec3(0, 0, 0))

Catalogue == { SatA, SatB, SatZ, SatA2 }

\* the control functions Controller.get_u_func() may return
UKinds == { "zero", "const", "ramp" }

\* u(tau): thrust vector at normalized time tau (ticks)
U(u, tau) ==
    CASE u = "zero"  -> Vec3(0, 0, 0)
      [] u = "const" -> Vec3(0, 100, 0)
      [] u = "ramp"  -> Vec3(20 + (tau \div 20), 0, 0)

\* orbit counts in hundredths: every half orbit from -0.5 to bound
TfValues(bound) == { (TF_UNIT \div 2) * k : k \in -1 .. 2 * bound }

\* an orbit count of Python type int (the others are floats)
IsIntegerTf(t) == t % TF_UNIT = 0

---------------------------------------------------------------------------
(* get_atmo_density *)

\* The altitude is computed and not used; the density is the fixed value.
get_atmo_density(r, r0) ==
    LET altitude == Norm(<< (r[1] * r0) \div FP, (r[2] * r0) \div FP, (r[3] * r0) \div FP >>) - R_EARTH
    IN  RHO_500KM

---------------------------------------------------------------------------
(* satellite_dynamics *)

\* Mass ODE: y_dot[6], before the scaling by tf. thrust is y[7:10].
mass_dot(y, constants) ==
    LET thrust == PySlice(y, 7, 10)
    IN  -((Norm(thrust) * FP) \div ((constants.G0 * constants.ISP) \div FP))

\* tf * y_dot. tau in ticks, y the state vector as the solver holds it,
\* u a control function, tf in hundredths, constants the dict const.
satellite_dynamics(tau, y, u, tf_, constants) ==
    LET r == PySlice(y, 0, 3)
        v == PySlice(y, 3, 6)
        m == y[7]
        r_z == r[3]
        r_norm == Norm(r)
        \* Accel from gravity: -MU / r_norm^3 * r
        k_g == (((((constants.MU * FP) \div r_norm) * FP) \div r_norm) * FP) \div r_norm
        a_g == [i \in 1..3 |-> -((k_g * r[i]) \div FP)]
        \* Accel from J2
        zr2 == (((r_z * FP) \div r_norm) * ((r_z * FP) \div r_norm)) \div FP
        A == << 5 * zr2 - FP, 5 * zr2 - FP, 5 * zr2 - 3 * FP >>
        re2 == (constants.R_E * constants.R_E) \div FP
        c0 == ((((3 * constants.J2 * constants.MU) \div 2) \div FP) * re2) \div FP
        c1 == (c0 * FP) \div r_norm
        c2 == (c1 * FP) \div r_norm
        c3 == (c2 * FP) \div r_norm
        c4 == (c3 * FP) \div r_norm
        c5 == (c4 * FP) \div r_norm
        a_j2 == [i \in 1..3 |-> (c5 * ((A[i] * r[i]) \div FP)) \div FP]
        \* Accel from thrust: u(tau) / m
        ut == U(u, tau)
        a_u == [i \in 1..3 |-> (ut[i] * FP) \div m]
        \* Accel from atmospheric drag
        rho == (get_atmo_density(r, constants.R0) * FP) \div constants.RHO
        k_d == (((((C_D * constants.S) \div FP) * FP) \div m) * rho) \div 2
        v_norm == Norm(v)
        a_d == [i \in 1..3 |-> -((((k_d * v_norm) \div FP) * v[i]) \div FP)]
        y_dot == << v[1], v[2], v[3],
                    a_g[1] + a_j2[1] + a_u[1] + a_d[1],
                    a_g[2] + a_j2[2] + a_u[2] + a_d[2],
                    a_g[3] + a_j2[3] + a_u[3] + a_d[3],
                    mass_dot(y, constants) >>
    IN  [i \in 1..7 |-> (tf_ * y_dot[i]) \div TF_UNIT]

---------------------------------------------------------------------------
(* get_trajectory_ODE: the normalization *)

\* Whether the scale factors and y0 are finite numbers: with r0 = 0 the
\* quotients r0/s0 and position/r0 are 0/0, with m0 = 0 so is mass/m0.
FiniteScale(sat) == Norm(sat.position) # 0 /\ sat.mass # 0

NaNVector == << 0, 0, 0, 0, 0, 0, 0 >>

NaNConst == [MU |-> 0, R_E |-> 0, J2 |-> 0, S |-> 0, G0 |-> 0, ISP |-> 0, R0 |-> 0, RHO |-> 0]

\* The locals of get_trajectory_ODE after the normalization. finite = FALSE
\* stands for a y0 holding nan; its components are then not numbers and the
\* fields y0, const are placeholders that are never read.
Normalize(sat) ==
    LET r0 == Norm(sat.position)
        r0sq == (r0 * r0) \div FP
        r0cu == (r0sq * r0) \div FP
        s0 == (TWO_PI * ISqrt(((r0cu * FP) \div MU_EARTH) * FP)) \div FP
        s0sq == (s0 * s0) \div FP
        v0 == (r0 * FP) \div s0
        a0 == (r0 * FP) \div s0sq
        m0 == sat.mass
        mu0 == (r0cu * FP) \div s0sq
    IN  IF ~FiniteScale(sat)
        THEN [finite |-> FALSE, r0 |-> r0, m0 |-> m0, y0 |-> NaNVector, const |-> NaNConst]
        ELSE [finite |-> TRUE, r0 |-> r0, m0 |-> m0,
              y0 |-> << (sat.position[1] * FP) \div r0,
                        (sat.position[2] * FP) \div r0,
                        (sat.position[3] * FP) \div r0,
                        (sat.velocity[1] * FP) \div v0,
                        (sat.velocity[2] * FP) \div v0,
                        (sat.velocity[3] * FP) \div v0,
                        (sat.mass * FP) \div m0 >>,
              const |-> [MU |-> (MU_EARTH * FP) \div mu0,
                         R_E |-> (R_EARTH * FP) \div r0,
                         J2 |-> J2,
                         S |-> (SA * FP) \div r0sq,
                         G0 |-> (G0 * FP) \div a0,
                         ISP |-> (ISP * FP) \div s0,
                         R0 |-> r0,
                         RHO |-> (m0 * FP * FP) \div r0cu]]

---------------------------------------------------------------------------
(* get_trajectory_ODE: the sample grid *)

\* a grid without its end point
resolution_open(tf_) == (SAMPLES_PER_ORBIT * tf_) \div TF_UNIT

\* resolution = (100*tf) + 1
resolution(tf_) == ((SAMPLES_PER_ORBIT * tf_) \div TF_UNIT) + 1

\* times = np.linspace(0, 1, resolution). The outcomes: the number of
\* points of the grid, or the exception raised. An int count must be
\* non-negative. A float count is a TypeError (numpy >= 1.18) or is
\* converted with int() (numpy < 1.18).
LinspaceOutcomes(tf_) ==
    LET num == resolution(tf_)
        checked == IF num < 0 THEN [err |-> "ValueError", num |-> -1]
                              ELSE [err |-> "none", num |-> num]
    IN  IF IsIntegerTf(tf_) THEN { checked }
        ELSE { [err |-> "TypeError", num |-> -1], checked }

\* times[i] (0-based) as a fraction of ticks: numerator and denominator.
\* np.linspace(0, 1, 1) is [0.].
TimesNum(i, num) == IF num = 1 THEN 0 ELSE TICKS * i
TimesDen(num) == IF num = 1 THEN 1 ELSE num - 1

\* the span [0, tf] handed to solve_ivp, in ticks
t_bound(tf_) == (TICKS * tf_) \div TF_UNIT

\* solve_ivp's check "Values in t_eval are not within t_span":
\* no times[i] lies below min(t0, tf) or above max(t0, tf), with t0 = 0
TEvalInSpan(num, tf_) ==
    { i \in 0 .. num - 1 :
        \/ TimesNum(i, num) < Min(0, t_bound(tf_)) * TimesDen(num)
        \/ TimesNum(i, num) > (IF t_bound(tf_) > 0 THEN t_bound(tf_) ELSE 0) * TimesDen(num) }
      = { }

---------------------------------------------------------------------------
(* solve_ivp: the solver loop *)

NoSolver == [t |-> 0, y |-> NaNVector, t_old |-> 0, y_old |-> NaNVector,
             status |-> "none", t_eval_i |-> 0, ys |-> << >>]

\* The solver after its construction. t_eval_i is the index of the next
\* point of t_eval to emit: 0 for tf > t0. For tf = t0 solve_ivp takes the
\* branch of a backward integration (t_eval_i = len(t_eval)) while the
\* solver's direction is forward, and then emits nothing; releases that
\* treat the empty span as forward start at 0.
SolverInit(y0, num, tf_) ==
    { [t |-> 0, y |-> y0, t_old |-> 0, y_old |-> y0,
       status |-> "running", t_eval_i |-> i, ys |-> << >>]
      : i \in IF t_bound(tf_) > 0 THEN { 0 } ELSE { 0, num } }

\* np.searchsorted(t_eval, t, side='right'): how many points are <= t
CountLE(t, num) ==
    IF num <= 1 THEN num
    ELSE Min(num, ((t * (num - 1)) \div TICKS) + 1)

\* sol(t_eval[i]): the dense output of the step from (t_old, y_old) to (t, y)
DenseOutput(t_old, y_old, t, y, i, num) ==
    IF t = t_old THEN y
    ELSE [k \in 1..7 |->
            y_old[k] + ((y[k] - y_old[k]) * (TimesNum(i, num) - TimesDen(num) * t_old))
                         \div (TimesDen(num) * (t - t_old))]

\* One pass of solve_ivp's loop: solver.step(), then the points of t_eval
\* reached by it are sampled. A step is at most max_step long and never
\* passes t_bound; p = [u, tf, const, num].
SolverStep(st, p) ==
    LET tb == t_bound(p.tf)
        h == Min(MAX_STEP, tb - st.t)
        f == satellite_dynamics(st.t, st.y, p.u, p.tf, p.const)
        y_new == IF h = 0 THEN st.y
                 ELSE [i \in 1..7 |-> st.y[i] + ((f[i] * h) \div TICKS)]
        t_new == st.t + h
        i_new == CountLE(t_new, p.num)
        n_new == IF i_new > st.t_eval_i THEN i_new - st.t_eval_i ELSE 0
        step_ys == [k \in 1..n_new |->
                      DenseOutput(st.t, st.y, t_new, y_new, st.t_eval_i + k - 1, p.num)]
    IN  [t |-> t_new, y |-> y_new, t_old |-> st.t, y_old |-> st.y,
         status |-> IF t_new = tb THEN "finished" ELSE "running",
         t_eval_i |-> i_new, ys |-> st.ys \o step_ys]

RECURSIVE StepN(_, _, _)
StepN(st, p, n) ==
    IF n = 0 \/ st.status # "running" THEN st ELSE StepN(SolverStep(st, p), p, n - 1)

\* the loop "while status is None", run to its end
RECURSIVE Solve(_, _)
Solve(st, p) ==
    IF st.status # "running" THEN st ELSE Solve(StepN(st, p, 5 * 10), p)

---------------------------------------------------------------------------
(* get_trajectory_ODE: re-dimensionalization and result *)

\* r = sol.y[0:3,:]; pos = r*r0
Redimension(ys, r0) ==
    [j \in 1..Len(ys) |->
        << (ys[j][1] * r0) \div FP, (ys[j][2] * r0) \div FP, (ys[j][3] * r0) \div FP >>]

Raise == [kind |-> "raise", pos |-> << >>]
Hang == [kind |-> "hang", pos |-> << >>]

\* What becomes of a finished solver: sol.y is a list when nothing was
\* sampled, and indexing it with [0:3,:] raises.
Extract(st, r0) ==
    IF st.ys = << >> THEN Raise ELSE [kind |-> "ok", pos |-> Redimension(st.ys, r0)]

\* The outcomes of get_trajectory_ODE(sat, tf, u): "ok" with the returned
\* array pos, "raise", or "hang" (the call never returns).
get_trajectory_ODE(sat, tf_, u) ==
    LET nrm == Normalize(sat)
        After(lo) ==
            IF lo.err # "none" THEN { Raise }
            ELSE IF ~TEvalInSpan(lo.num, tf_) THEN { Raise }
            ELSE IF ~nrm.finite THEN { Raise, Hang }
            ELSE { Extract(Solve(st0, [u |-> u, tf |-> tf_, const |-> nrm.const, num |-> lo.num]),
                           nrm.r0)
                   : st0 \in SolverInit(nrm.y0, lo.num, tf_) }
    IN  UNION { After(lo) : lo \in LinspaceOutcomes(tf_) }

---------------------------------------------------------------------------
(* One call of get_trajectory_ODE, statement by statement *)

EmptyDict == [i \in {} |-> << >>]

NoNorm == [finite |-> FALSE, r0 |-> 0, m0 |-> 0, y0 |-> NaNVector, const |-> NaNConst]

\* the run-level variables while a single get_trajectory_ODE call is studied
RunOff ==
    /\ sats = << >> /\ controller = "zero" /\ sim_data = EmptyDict
    /\ pos_dict = EmptyDict /\ pc = "off" /\ idx = 0 /\ tf = 0 /\ runs = 0
    /\ sats0 = << >> /\ failed = 0
    /\ completed = [n |-> 0, sats |-> << >>, tf |-> 0]

\* the integration-level variables while run is studied
ODEOff ==
    /\ o_pc = "off" /\ o_sat = SatA /\ o_tf = 0 /\ o_u = "zero" /\ o_nrm = NoNorm
    /\ o_res = -1 /\ o_st = NoSolver /\ o_tau = -1 /\ o_pos = << >>

InitODE ==
    /\ RunOff
    /\ o_pc = "normalize"
    /\ o_sat \in Catalogue
    /\ o_tf \in TfValues(MaxTf)
    /\ o_u \in UKinds
    /\ o_nrm = NoNorm /\ o_res = -1 /\ o_st = NoSolver /\ o_tau = -1 /\ o_pos = << >>

\* lines 109-121: scale factors, y0, const
ODENormalize ==
    /\ o_pc = "normalize"
    /\ o_nrm' = Normalize(o_sat)
    /\ o_pc' = "linspace"
    /\ UNCHANGED << o_sat, o_tf, o_u, o_res, o_st, o_tau, o_pos, run_vars >>

\* lines 124-125: resolution and times
ODELinspace ==
    /\ o_pc = "linspace"
    /\ \E lo \in LinspaceOutcomes(o_tf) :
         /\ o_res' = lo.num
         /\ o_pc' = IF lo.err = "none" THEN "solve_ivp" ELSE "raised"
    /\ UNCHANGED << o_sat, o_tf, o_u, o_nrm, o_st, o_tau, o_pos, run_vars >>

\* line 126, solve_ivp's argument check: t_eval outside t_span
ODESolveIvpTEvalError ==
    /\ o_pc = "solve_ivp"
    /\ ~TEvalInSpan(o_res, o_tf)
    /\ o_pc' = "raised"
    /\ UNCHANGED << o_sat, o_tf, o_u, o_nrm, o_res, o_st, o_tau, o_pos, run_vars >>

\* line 126 with a y0 holding nan: the solver's constructor rejects it
\* ("All components of the initial state y0 must be finite") ...
ODESolveIvpNonFiniteRaise ==
    /\ o_pc = "solve_ivp"
    /\ TEvalInSpan(o_res, o_tf)
    /\ ~o_nrm.finite
    /\ o_pc' = "raised"
    /\ UNCHANGED << o_sat, o_tf, o_u, o_nrm, o_res, o_st, o_tau, o_pos, run_vars >>

\* ... or, in releases without that check, every step has a nan error
\* norm and a nan step size and is rejected: the loop never ends.
ODESolveIvpNonFiniteHang ==
    /\ o_pc = "solve_ivp"
    /\ TEvalInSpan(o_res, o_tf)
    /\ ~o_nrm.finite
    /\ o_pc' = "hung"
    /\ UNCHANGED << o_sat, o_tf, o_u, o_nrm, o_res, o_st, o_tau, o_pos, run_vars >>

\* line 126: the solver is built; its constructor evaluates fun at t0
ODESolveIvpBegin ==
    /\ o_pc = "solve_ivp"
    /\ TEvalInSpan(o_res, o_tf)
    /\ o_nrm.finite
    /\ o_st' \in SolverInit(o_nrm.y0, o_res, o_tf)
    /\ o_tau' = 0
    /\ o_pc' = "integrating"
    /\ UNCHANGED << o_sat, o_tf, o_u, o_nrm, o_res, o_pos, run_vars >>

\* line 126: one pass of the solver loop. The step evaluates fun on
\* [t, t + h], last at t + h; a solver already at t_bound finishes
\* without evaluating it.
ODESolverStep ==
    /\ o_pc = "integrating"
    /\ o_st.status = "running"
    /\ o_st' = SolverStep(o_st, [u |-> o_u, tf |-> o_tf, const |-> o_nrm.const, num |-> o_res])
    /\ o_tau' = o_st'.t
    /\ UNCHANGED << o_pc, o_sat, o_tf, o_u, o_nrm, o_res, o_pos, run_vars >>

\* lines 127-129: extract, re-dimensionalize, return
ODEReturn ==
    /\ o_pc = "integrating"
    /\ o_st.status = "finished"
    /\ LET out == Extract(o_st, o_nrm.r0)
       IN  /\ o_pc' = IF out.kind = "ok" THEN "returned" ELSE "raised"
           /\ o_pos' = out.pos
    /\ UNCHANGED << o_sat, o_tf, o_u, o_nrm, o_res, o_st, o_tau, run_vars >>

NextODE ==
    \/ ODENormalize
    \/ ODELinspace
    \/ ODESolveIvpTEvalError
    \/ ODESolveIvpNonFiniteRaise
    \/ ODESolveIvpNonFiniteHang
    \/ ODESolveIvpBegin
    \/ ODESolverStep
    \/ ODEReturn

SpecODE == InitODE /\ [][NextODE]_vars

---------------------------------------------------------------------------
(* Simulator.__init__ and Simulator.run *)

RECURSIVE SeqsUpTo(_, _)
SeqsUpTo(S, n) ==
    IF n = 0 THEN { << >> }
    ELSE LET shorter == SeqsUpTo(S, n - 1)
         IN  shorter \cup { Append(q, x) : q \in shorter, x \in S }

\* Controller.get_u_func(): the controller hands out its control function
get_u_func(c) == c

\* The outcomes of get_trajectory_ODE for every argument run can pass,
\* computed once.
TrajectoryTable ==
    [s \in Catalogue, t \in TfValues(MaxRunTf), u \in UKinds |-> get_trajectory_ODE(s, t, u)]

\* a write-back of the propagated position, as the fixed-step path does
SatAfterODE_writeback(sat, out) ==
    IF out.kind = "ok" THEN [sat EXCEPT !.position = out.pos[Len(out.pos)]] ELSE sat

\* The Satellite object after get_trajectory_ODE(sat, tf, u) has ended with
\* outcome out: the method only reads sat.position, sat.velocity, sat.mass.
SatAfterODE(sat, out) == sat

\* pos_dict[key] = value
DictPut(d, key, value) ==
    [k \in DOMAIN d \cup { key } |-> IF k = key THEN value ELSE d[k]]

\* a loop that keeps working on the first satellite
LoopSat_first(ss, i) == ss[1]

\* the loop variable of "for sat in self.sats", at the loop's i-th pass
LoopSat(ss, i) == ss[i]

\* __init__, lines 15-17
Init ==
    /\ ODEOff
    /\ sats \in SeqsUpTo(Catalogue, MaxSats)
    /\ controller \in UKinds
    /\ sim_data = EmptyDict
    /\ pos_dict = EmptyDict /\ pc = "idle" /\ idx = 0 /\ tf = 0 /\ runs = 0
    /\ sats0 = sats /\ failed = 0
    /\ completed = [n |-> 0, sats |-> << >>, tf |-> 0]

\* a remnant: run starts from the mapping of the run before
PosDictInit_stale == sim_data

\* line 26: pos_dict = {}
PosDictInit == EmptyDict

\* run is called (line 19) and pos_dict is created (line 26)
RunCall ==
    /\ pc \in { "idle", "returned", "raised" }
    /\ runs < MaxRuns
    /\ tf' \in TfValues(MaxRunTf)
    /\ pos_dict' = PosDictInit
    /\ idx' = 1
    /\ pc' = "loop"
    /\ runs' = runs + 1
    /\ sats0' = sats
    /\ failed' = 0
    /\ UNCHANGED << sats, controller, sim_data, completed, ode_vars >>

\* one pass of the loop, lines 27-30
RunIter ==
    /\ pc = "loop"
    /\ idx <= Len(sats)
    /\ LET sat == LoopSat(sats, idx)
           u == get_u_func(controller)
       IN  \E out \in TrajectoryTable[sat, tf, u] :
             /\ sats' = [sats EXCEPT ![idx] = SatAfterODE(sat, out)]
             /\ IF out.kind = "ok"
                THEN /\ pos_dict' = DictPut(pos_dict, sat.id, out.pos)
                     /\ idx' = idx + 1
                     /\ pc' = "loop"
                     /\ failed' = failed
                ELSE \* the exception leaves run, or the call never returns
                     /\ pos_dict' = pos_dict
                     /\ idx' = idx
                     /\ pc' = IF out.kind = "raise" THEN "raised" ELSE "hung"
                     /\ failed' = idx
    /\ UNCHANGED << controller, sim_data, tf, runs, sats0, completed, ode_vars >>

\* the loop is over: lines 31-32
RunReturn ==
    /\ pc = "loop"
    /\ idx > Len(sats)
    /\ sim_data' = pos_dict
    /\ pc' = "returned"
    /\ completed' = [n |-> completed.n + 1, sats |-> sats0, tf |-> tf]
    /\ UNCHANGED << sats, controller, pos_dict, idx, tf, runs, sats0, failed, ode_vars >>

\* Between two runs the owner of the Simulator takes the last satellite
\* off the public list self.sats (line 16).
SatsRemoveLast ==
    /\ pc \in { "returned", "raised" }
    /\ runs < MaxRuns
    /\ sats # << >>
    /\ sats' = SubSeq(sats, 1, Len(sats) - 1)
    /\ sats0' = sats'
    /\ pc' = "idle"
    /\ UNCHANGED << controller, sim_data, pos_dict, idx, tf, runs, failed, completed, ode_vars >>

Next ==
    \/ RunCall
    \/ RunIter
    \/ RunReturn
    \/ SatsRemoveLast

Spec == Init /\ [][Next]_vars

---------------------------------------------------------------------------
(* Properties of one get_trajectory_ODE call (checked under SpecODE) *)

\* u is nonzero at every normalized time of the propagation [0, tf]
SustainedThrust(u, tf_) == \A tau \in 0 .. t_bound(tf_) : Norm(U(u, tau)) # 0

\* C1: under a nonzero sustained thrust the normalized mass y[6] never
\* increases from one solver step to the next, and at the last integrated
\* time of a propagation over tf > 0 it is strictly smaller than at the start.
C1_MassDecreasesUnderThrust ==
    /\ (o_pc = "integrating" /\ o_st.y[7] > o_st.y_old[7]) => ~SustainedThrust(o_u, o_tf)
    /\ (o_pc = "returned" /\ o_tf > 0 /\ SustainedThrust(o_u, o_tf)) =>
            o_st.y[7] < o_nrm.y0[7]

\* -tf * |u(tau)| / (G0 * ISP), with G0 and ISP the normalized constants
MassFlowOfControl(tau, u, tf_, constants) ==
    (tf_ * (-((Norm(U(u, tau)) * FP) \div ((constants.G0 * constants.ISP) \div FP)))) \div TF_UNIT

\* C2: at every time tau and state y at which the solver evaluates
\* satellite_dynamics, the mass derivative it returns is
\* -tf * |u(tau)| / (G0 * ISP), the thrust magnitude being that of the
\* control output u(tau) used for the thrust acceleration.
C2_MassFlowFromControlOutput ==
    (o_pc = "integrating" /\ o_st.status = "running") =>
        satellite_dynamics(o_st.t, o_st.y, o_u, o_tf, o_nrm.const)[7]
            = MassFlowOfControl(o_st.t, o_u, o_tf, o_nrm.const)

C6_FailFastOnZeroNorm ==
    Norm(o_sat.position) = 0 => o_pc \notin { "solve_ivp", "integrating", "hung", "returned" }

\* C8: once the grid times is built, every point of it lies inside the
\* span [0, tf] handed to the solver.
C8_SamplesInsideSpan ==
    o_pc = "solve_ivp" => TEvalInSpan(o_res, o_tf)

\* C9: the control function and satellite_dynamics are only evaluated at
\* normalized times tau with 0 <= tau <= 1.
C9_TauInUnitInterval ==
    o_tau # -1 => (0 <= o_tau /\ o_tau <= TICKS)

---------------------------------------------------------------------------
(* Properties of run (checked under Spec) *)

Ids(ss) == { ss[i].id : i \in 1..Len(ss) }

DistinctIds(ss) == \A i, j \in 1..Len(ss) : ss[i].id = ss[j].id => i = j

\* the arrays get_trajectory_ODE(sat, tf, u) can return
OkPos(sat, tf_, u) == { o.pos : o \in { x \in TrajectoryTable[sat, tf_, u] : x.kind = "ok" } }

\* C3: a satellite whose propagation fails does not end the run: when the
\* propagation of a satellite cannot succeed and a satellite after it in
\* the list can be propagated, the failure is not raised out of run (nor
\* does run hang on it), and at the end of the run the trajectories of the
\* satellites after it are delivered.
C3_FailuresAreSatelliteScoped ==
    (/\ failed # 0
     /\ OkPos(sats[failed], tf, get_u_func(controller)) = { }
     /\ \E j \in (failed + 1) .. Len(sats) : OkPos(sats[j], tf, get_u_func(controller)) # { })
    =>  /\ pc \notin { "raised", "hung" }
        /\ (pc = "returned" =>
              \A j \in (failed + 1) .. Len(sats) : sats[j].id \in DOMAIN sim_data)

\* C5: from the call of run to its end, by return or by exception, every
\* satellite of self.sats has the position, velocity, mass, thrust and id
\* it had when run was called.
C5_SatellitesNotMutated ==
    pc \in { "loop", "returned", "raised", "hung" } => sats = sats0

\* run has propagated a first satellite over a full orbit and raised on the second
C5_Witness ==
    pc = "raised" /\ failed = 2 /\ tf = TF_UNIT /\ sats0[1].id \in DOMAIN pos_dict

\* C7: after a run over satellites with pairwise distinct ids the mapping
\* has exactly one entry per satellite, and the entry of a satellite is the
\* trajectory that its own position, velocity and mass, tf and the control
\* function determine, whatever the other satellites and its place in the list.
C7_EachEntryFromOwnState ==
    (pc = "returned" /\ DistinctIds(sats0)) =>
        /\ DOMAIN sim_data = Ids(sats0)
        /\ Cardinality(DOMAIN sim_data) = Len(sats0)
        /\ \A i \in 1..Len(sats0) :
             sim_data[sats0[i].id] \in OkPos(sats0[i], tf, get_u_func(controller))

\* a run over two satellites of different radius and mass has returned
C7_Witness ==
    /\ pc = "returned" /\ Len(sats0) = 2 /\ DistinctIds(sats0) /\ tf = TF_UNIT
    /\ Norm(sats0[1].position) # Norm(sats0[2].position)

\* the last satellite of ss that carries the id
LastWithId(ss, id) ==
    ss[CHOOSE i \in 1..Len(ss) : ss[i].id = id /\ \A j \in (i + 1)..Len(ss) : ss[j].id # id]

\* C10: sim_data is empty as long as no run has returned, and otherwise it
\* is the complete mapping of the latest run that returned: its keys are
\* the ids of that run's satellites and its values that run's trajectories,
\* also while a later run is under way and after a later run has raised.
C10_SimDataIsLatestCompleteMapping ==
    IF completed.n = 0
    THEN sim_data = EmptyDict
    ELSE /\ DOMAIN sim_data = Ids(completed.sats)
         /\ \A id \in DOMAIN sim_data :
              sim_data[id] \in OkPos(LastWithId(completed.sats, id), completed.tf,
                                     get_u_func(controller))

\* a run has raised part-way, after a first satellite was propagated, and
\* sim_data holds the mapping of the run before
C10_Witness ==
    /\ pc = "raised" /\ completed.n = 1 /\ runs = 2 /\ failed = 2
    /\ pos_dict # EmptyDict /\ sim_data # EmptyDict /\ sim_data # pos_dict

===========================================================================
